---------------------------- MODULE Spec2Model ----------------------------
(***************************************************************************)
(* Model of the company-resolution scripts:                                *)
(*   PT1_wikiScraping.py        getFromWikipedia, ParseVCard,              *)
(*                              CleanWikipediaContent and the module-level *)
(*                              resolution loop and mismatch fix           *)
(*   PT1_bingSeleniumScraping.py  _search_with_timeout_worker and          *)
(*                              getFromBingSelenium (caller and worker     *)
(*                              process, result queue, signals)            *)
(*                                                                         *)
(* Text is modelled as sequences of one-character strings, so that Python  *)
(* `in`, strip, replace, split and re.sub are computed, not assumed.       *)
(* "nbsp" stands for the single character U+00A0.  URLs are sequences of   *)
(* tokens ("/wiki/" is one token).                                         *)
(*                                                                         *)
(* Three specifications share the variables:                               *)
(*   SpecGate    one call of getFromWikipedia on bounded inputs            *)
(*   SpecSearch  one call of getFromBingSelenium with its worker process   *)
(*   Spec        runs of the PT1_wikiScraping.py script against a store    *)
(***************************************************************************)
EXTENDS Integers, Sequences, FiniteSets, TLC

VARIABLES
    \* ---- SpecGate: one call of getFromWikipedia
    gIn,        \* the call's arguments and what the external site answers
    gOut,       \* the call's result, or NotCalled
    \* ---- SpecSearch: getFromBingSelenium and its worker process
    sIn,        \* the arguments of the getFromBingSelenium call
    cpc,        \* the caller's position in getFromBingSelenium
    got,        \* the message the caller took from result_queue (NoMsg if none)
    ret,        \* the value getFromBingSelenium returned (once cpc = "returned")
    branch,     \* the message branch the caller printed
    wpc,        \* the worker's position in _search_with_timeout_worker
    proc,       \* the worker process: "unstarted", "running", "exited" (returned
                \* from its target), "killed" (by a signal), "crashed"
    sig,        \* signals posted to the worker and not yet acted upon
    driver,     \* the worker's browser session: "none", "open", "quit"
    attempt,    \* the worker's loop variable
    wurl,       \* the worker's wikipedia_url (NoURL when None)
    buffer,     \* result_queue: messages put and not yet flushed by the feeder
    pipe,       \* result_queue: messages the feeder has written to the pipe
    puts,       \* history: every message the worker has put, in order
    aliveAtDeadline, \* history: worker.is_alive() at line 362
    aliveAtReturn,   \* history: whether the worker was running when the call returned
    wlog,            \* history: the worker's searches, sleeps and page fetch, in order
    putsAtDeadline,  \* history: how many messages were put when the join of line 359 returned
    \* ---- Spec: the PT1_wikiScraping.py script
    store,      \* the PortfolioIntelligence collection: a sequence of documents
    opc,        \* the script's position
    run,        \* which run of the script this is (1..MaxRuns)
    DF,         \* the batch read at line 153: a sequence of rows
    row,        \* index into DF of the next row of the loop
    Mismatched, \* the list read at line 228, not yet fixed
    last,       \* history: what the latest loop iteration did
    prevEnd,    \* history: how the former run ended ("none" for the first run)
    startStore, \* history: the collection as it was when this run started
    hist,       \* history: per _id, what the loop of this run did for it
    \* ---- the function-level specifications
    xIn,        \* SpecExtract: the argument of ParseVCard / CleanWikipediaContent
    xOut,       \* SpecExtract: the value returned (NotRun before the call)
    scan,       \* SpecScan: one call of extract_wikipedia_url
    yf          \* SpecYahoo: one call of getFromYahooFinance

gateVars   == <<gIn, gOut>>
searchVars == <<sIn, cpc, got, ret, branch, wpc, proc, sig, driver, attempt, wurl,
                buffer, pipe, puts, aliveAtDeadline, aliveAtReturn, wlog, putsAtDeadline>>
orchVars   == <<store, opc, run, DF, row, Mismatched, last, prevEnd, startStore, hist>>
libVars    == <<xIn, xOut, scan, yf>>
vars       == <<gateVars, searchVars, orchVars, libVars>>

-----------------------------------------------------------------------------
(* Bounds                                                                  *)

MaxSymLen == 2      \* longest enumerated ticker symbol
MaxValLen == 2      \* longest enumerated 'Traded as' value
MaxRetries == 2     \* largest retries argument of getFromBingSelenium
MaxDocs == 2        \* documents in the collection
MaxRuns == 2        \* successive runs of the script

-----------------------------------------------------------------------------
(* Python values                                                           *)

NoneV        == [t |-> "None"]
Str(s)       == [t |-> "str", v |-> s]
Dict(d)      == [t |-> "dict", v |-> d]
Tuple3(a, b, c) == [t |-> "tuple", items |-> <<a, b, c>>]

\* Python truth value testing: None, "", {} and () are false.
Truthy(x) ==
    CASE x.t = "None"  -> FALSE
      [] x.t = "str"   -> x.v # <<>>
      [] x.t = "dict"  -> DOMAIN x.v # {}
      [] x.t = "tuple" -> Len(x.items) > 0
      [] OTHER         -> TRUE

EmptyDict == [k \in {} |-> <<>>]

\* A message of the result queue: the tuple (status, url, data); big says
\* whether its pickled form exceeds the capacity of the queue's pipe.
Msg(status, url, data, big) == [status |-> status, url |-> url, data |-> data, big |-> big]
NoMsg == Msg("none", NoneV, NoneV, FALSE)

-----------------------------------------------------------------------------
(* Text helpers                                                            *)

Whitespace == {" ", "\n", "\t", "nbsp"}
Digits     == {"0", "1", "2", "3", "4", "5", "6", "7", "8", "9"}

\* Python  a in b  on strings: a is a contiguous substring of b.
In(a, b) ==
    \E i \in 0..(Len(b) - Len(a)) : SubSeq(b, i + 1, i + Len(a)) = a

\* str.replace(old, new) for single characters.
Replace(s, old, new) == [i \in 1..Len(s) |-> IF s[i] = old THEN new ELSE s[i]]

RECURSIVE LStrip(_)
LStrip(s) == IF s # <<>> /\ s[1] \in Whitespace THEN LStrip(Tail(s)) ELSE s

RECURSIVE RStrip(_)
RStrip(s) ==
    IF s # <<>> /\ s[Len(s)] \in Whitespace
    THEN RStrip(SubSeq(s, 1, Len(s) - 1)) ELSE s

\* str.strip()
Strip(s) == RStrip(LStrip(s))

\* The first index >= i of s whose character is not in set C (Len(s)+1 if none).
RECURSIVE RunEnd(_, _, _)
RunEnd(s, i, C) == IF i <= Len(s) /\ s[i] \in C THEN RunEnd(s, i + 1, C) ELSE i

\* re.sub(r'\[C+\]', '', s): leftmost non-overlapping matches removed.
RECURSIVE SubBracketed(_, _)
SubBracketed(s, C) ==
    IF s = <<>> THEN <<>>
    ELSE LET j == RunEnd(s, 2, C) IN
         IF s[1] = "[" /\ j > 2 /\ j <= Len(s) /\ s[j] = "]"
         THEN SubBracketed(SubSeq(s, j + 1, Len(s)), C)
         ELSE <<s[1]>> \o SubBracketed(Tail(s), C)

RECURSIVE Concat(_, _)
\* sep.join(parts)
Concat(parts, sep) ==
    IF parts = <<>> THEN <<>>
    ELSE IF Len(parts) = 1 THEN parts[1]
    ELSE parts[1] \o sep \o Concat(Tail(parts), sep)

RECURSIVE SeqsUpTo(_, _)
\* All sequences over alphabet A of length 0..n.
SeqsUpTo(A, n) ==
    IF n = 0 THEN {<<>>}
    ELSE LET S == SeqsUpTo(A, n - 1) IN
         S \cup {Append(s, a) : s \in {t \in S : Len(t) = n - 1}, a \in A}

-----------------------------------------------------------------------------
(* ParseVCard (PT1_wikiScraping.py 119-141)                                *)
(* An HTML document is a sequence of tables; a table has a set of classes  *)
(* and a sequence of rows; a row has an optional first th and first td,    *)
(* each a sequence of text pieces (the cell's text nodes).                 *)

NoCell == [present |-> FALSE, pieces |-> <<>>]
Cell(pieces) == [present |-> TRUE, pieces |-> pieces]

RECURSIVE StrippedPieces(_)
\* The text nodes of a cell, each stripped, the empty ones dropped
\* (BeautifulSoup get_text(strip=True)).
StrippedPieces(pieces) ==
    IF pieces = <<>> THEN <<>>
    ELSE LET p == Strip(pieces[1]) IN
         (IF p = <<>> THEN <<>> ELSE <<p>>) \o StrippedPieces(Tail(pieces))

GetText(cell, sep) == Concat(StrippedPieces(cell.pieces), sep)

\* Soup.find('table', class_ = ['inforbox', 'vcard']): index of the first table
\* carrying one of the classes, 0 when there is none.
FindInfobox(html) ==
    LET hits == {i \in 1..Len(html) : html[i].classes \cap {"inforbox", "vcard"} # {}}
    IN IF hits = {} THEN 0 ELSE CHOOSE i \in hits : \A j \in hits : i <= j

RowKey(r)   == Replace(GetText(r.th, <<>>), "nbsp", " ")
RowValue(r) == SubBracketed(Replace(GetText(r.td, <<" ">>), "nbsp", " "), Digits)
RowKept(r)  == r.th.present /\ r.td.present /\ RowKey(r) # <<>> /\ RowValue(r) # <<>>

ParseVCard(html) ==
    LET t == FindInfobox(html) IN
    IF t = 0 THEN EmptyDict
    ELSE LET rows == html[t].rows
             kept == {i \in 1..Len(rows) : RowKept(rows[i])}
             keys == {RowKey(rows[i]) : i \in kept}
             \* a later row with the same header overwrites an earlier one
             lastOf(k) == CHOOSE i \in kept :
                              /\ RowKey(rows[i]) = k
                              /\ \A j \in kept : RowKey(rows[j]) = k => j <= i
         IN [k \in keys |-> RowValue(rows[lastOf(k)])]

-----------------------------------------------------------------------------
(* CleanWikipediaContent (PT1_wikiScraping.py 100-117)                     *)

Upper == {"A","B","C","D","E","F","G","H","I","J","K","L","M",
          "N","O","P","Q","R","S","T","U","V","W","X","Y","Z"}
LowerOf == "A" :> "a" @@ "B" :> "b" @@ "C" :> "c" @@ "D" :> "d" @@ "E" :> "e" @@
           "F" :> "f" @@ "G" :> "g" @@ "H" :> "h" @@ "I" :> "i" @@ "J" :> "j" @@
           "K" :> "k" @@ "L" :> "l" @@ "M" :> "m" @@ "N" :> "n" @@ "O" :> "o" @@
           "P" :> "p" @@ "Q" :> "q" @@ "R" :> "r" @@ "S" :> "s" @@ "T" :> "t" @@
           "U" :> "u" @@ "V" :> "v" @@ "W" :> "w" @@ "X" :> "x" @@ "Y" :> "y" @@
           "Z" :> "z"
Letters == Upper \cup {LowerOf[c] : c \in Upper}
Lower(s) == [i \in 1..Len(s) |-> IF s[i] \in Upper THEN LowerOf[s[i]] ELSE s[i]]

EndSections == <<
    <<"S","e","e"," ","a","l","s","o">>,
    <<"R","e","f","e","r","e","n","c","e","s">>,
    <<"E","x","t","e","r","n","a","l"," ","l","i","n","k","s">>,
    <<"F","u","r","t","h","e","r"," ","r","e","a","d","i","n","g">>,
    <<"N","o","t","e","s">>,
    <<"C","i","t","a","t","i","o","n","s">> >>

Heading(section) == <<"\n", "=", "=", " ">> \o section \o <<" ", "=", "=", "\n">>

\* re.split(pattern, s, flags = re.IGNORECASE)[0]: the text before the first
\* occurrence of the literal pattern, compared without case; all of s if none.
SplitFirst(s, pat) ==
    LET ls == Lower(s)
        lp == Lower(pat)
        hits == {i \in 0..(Len(s) - Len(pat)) : SubSeq(ls, i + 1, i + Len(pat)) = lp}
    IN IF hits = {} THEN s
       ELSE SubSeq(s, 1, CHOOSE i \in hits : \A j \in hits : i <= j)

RECURSIVE CutSections(_, _)
\* The for loop of lines 114-115 from section number k on.
CutSections(s, k) ==
    IF k > Len(EndSections) THEN s
    ELSE CutSections(SplitFirst(s, Heading(EndSections[k])), k + 1)

RECURSIVE CollapseNewlines(_)
\* re.sub(r'\n{3,}', '\n\n', s)
CollapseNewlines(s) ==
    IF s = <<>> THEN <<>>
    ELSE LET j == RunEnd(s, 1, {"\n"}) IN
         IF j - 1 >= 3 THEN <<"\n", "\n">> \o CollapseNewlines(SubSeq(s, j, Len(s)))
         ELSE IF j - 1 >= 1 THEN SubSeq(s, 1, j - 1) \o CollapseNewlines(SubSeq(s, j, Len(s)))
         ELSE <<s[1]>> \o CollapseNewlines(Tail(s))

CleanWikipediaContent(Content) ==
    IF Content = <<>> THEN <<>>
    ELSE LET c1 == SubBracketed(Content, Digits)
             c2 == SubBracketed(c1, Letters \cup Whitespace)
             c3 == CutSections(c2, 1)
             c4 == CollapseNewlines(c3)
         IN Strip(c4)

-----------------------------------------------------------------------------
(* getFromWikipedia (PT1_wikiScraping.py 46-96)                            *)
(* env is what the wikipedia library answers during the call:              *)
(*   env.search  [kind: "raise" | "empty" | "hit", title]                  *)
(*   env.fetch   "PageError" | "DisambiguationError" | "OtherError" | "ok" *)
(*   env.page    [url, html, content]   (the Page object when fetch = ok)  *)

NoURL == <<>>

TradedAs == <<"T","r","a","d","e","d"," ","a","s">>

\* dict.get(key, default)
DictGet(d, key, default) == IF key \in DOMAIN d THEN d[key] ELSE default

\* URL.split('/wiki/')[-1]
SplitLast(url, sep) ==
    LET hits == {i \in 1..Len(url) : url[i] = sep}
    IN IF hits = {} THEN url
       ELSE SubSeq(url, (CHOOSE i \in hits : \A j \in hits : j <= i) + 1, Len(url))

Failure3 == Tuple3(NoneV, NoneV, NoneV)

\* What one call did: its return value (or that it raised), the branch it left
\* through, and the calls it made to wikipedia.search / wikipedia.page.
Outcome(value, reason, nSearch, nPage) ==
    [exc |-> FALSE, value |-> value, reason |-> reason,
     searchCalls |-> nSearch, pageCalls |-> nPage]
Raised(nSearch, nPage) ==
    [exc |-> TRUE, value |-> NoneV, reason |-> "raised",
     searchCalls |-> nSearch, pageCalls |-> nPage]

\* A faulty variant of the symbol check: compares without case.
TickerCheckNoCase(Ticker, VCardDictionary) ==
    In(Lower(Ticker), Lower(DictGet(VCardDictionary, TradedAs, <<>>)))

\* Line 92:  Ticker in VCardDictionary.get('Traded as', '')
TickerCheck(Ticker, VCardDictionary) ==
    In(Ticker, DictGet(VCardDictionary, TradedAs, <<>>))

\* A faulty variant of the page fetch: a disambiguation set is resolved by fetching
\* one of its options.
FetchPickingOption(env, nSearch) ==
    [done |-> FALSE, out |-> Raised(nSearch, 2), calls |-> 2]

\* Lines 73-81: wikipedia.page and its two handled errors.  done = FALSE means
\* the Page object was obtained and the function goes on.
FetchAmbiguous(env, nSearch) ==
    [done |-> TRUE, out |-> Outcome(Failure3, "ambiguous", nSearch, 1), calls |-> 1]

FetchPage(env, nSearch) ==
    CASE env.fetch = "PageError" ->
            [done |-> TRUE, out |-> Outcome(Failure3, "page_error", nSearch, 1), calls |-> 1]
      [] env.fetch = "DisambiguationError" -> FetchAmbiguous(env, nSearch)
      [] env.fetch = "OtherError" ->
            [done |-> TRUE, out |-> Raised(nSearch, 1), calls |-> 1]
      [] OTHER -> [done |-> FALSE, out |-> Raised(nSearch, 1), calls |-> 1]

getFromWikipedia(Company, Ticker, URL, env) ==
    LET viaURL == URL # <<>>
        nSearch == IF viaURL THEN 0 ELSE 1
        PageTitle == IF viaURL THEN SplitLast(URL, "/wiki/") ELSE env.search.title
    IN
    IF viaURL /\ PageTitle = <<>> THEN Outcome(Failure3, "bad_url", 0, 0)
    ELSE IF ~viaURL /\ env.search.kind = "raise" THEN Outcome(Failure3, "search_error", 1, 0)
    ELSE IF ~viaURL /\ env.search.kind = "empty" THEN Outcome(Failure3, "no_results", 1, 0)
    ELSE IF PageTitle = <<>> THEN Outcome(Failure3, "no_title", nSearch, 0)
    ELSE LET f == FetchPage(env, nSearch) IN
         IF f.done THEN f.out
         ELSE LET Page == env.page
                  VCardDictionary == ParseVCard(Page.html)
                  Cleaned == CleanWikipediaContent(Page.content)
              IN IF ~TickerCheck(Ticker, VCardDictionary)
                 THEN Outcome(Failure3, "rejected", nSearch, f.calls)
                 ELSE Outcome(Tuple3(Str(Page.url), Dict(VCardDictionary), Str(Cleaned)),
                              "ok", nSearch, f.calls)

-----------------------------------------------------------------------------
(* Inputs of the bounded checks                                            *)

SymAlphabet == {"A", "B", "a"}

ABC == <<"A","B","C">>
XYZ == <<"X","Y","Z">>
ABD == <<"A","B","D">>
abc == <<"a","b","c">>
NasdaqNyse == <<"N","A","S","D","A","Q",":"," ","A","B","C",","," ",
                "N","Y","S","E",":"," ","X","Y","Z">>

\* Ticker symbols tried: every string up to MaxSymLen (the empty one included)
\* and the symbols of the documented example.
GateSymbols == SeqsUpTo(SymAlphabet, MaxSymLen) \cup {ABC, XYZ, ABD, abc}

\* 'Traded as' values tried (never empty: ParseVCard drops empty values).
GateValues == (SeqsUpTo(SymAlphabet, MaxValLen) \ {<<>>}) \cup {NasdaqNyse}

Founded == <<"F","o","u","n","d","e","d">>
Y1975   == <<"1","9","7","5">>

InfoRow(header, data) == [th |-> Cell(<<header>>), td |-> Cell(<<data>>)]
Infobox(rows) == [classes |-> {"infobox", "vcard"}, rows |-> rows]
PlainTable   == [classes |-> {"wikitable"}, rows |-> <<InfoRow(TradedAs, ABC)>>]

\* Rendered pages: no info table at all, an info table without a 'Traded as'
\* row, and info tables whose 'Traded as' row holds each value tried.
HtmlNoTable    == <<PlainTable>>
HtmlNoTradedAs == <<PlainTable, Infobox(<<InfoRow(Founded, Y1975)>>)>>
HtmlTraded(v)  == <<PlainTable, Infobox(<<InfoRow(Founded, Y1975), InfoRow(TradedAs, v)>>)>>
GateHtmls == {HtmlNoTable, HtmlNoTradedAs} \cup {HtmlTraded(v) : v \in GateValues}

WikiHost == "https://en.wikipedia.org"
PageUrl(title) == <<WikiHost, "/wiki/">> \o title
TitleX == <<"X">>

SomeContent == <<"F","o","o","[","1","]","\n">>

GatePages == {[url |-> PageUrl(TitleX), html |-> h, content |-> SomeContent] : h \in GateHtmls}

GateSearches == {[kind |-> "raise", title |-> <<>>], [kind |-> "empty", title |-> <<>>],
                 [kind |-> "hit", title |-> TitleX], [kind |-> "hit", title |-> <<>>]}
Fetches == {"PageError", "DisambiguationError", "OtherError", "ok"}

\* URL arguments: none, a page URL, and a URL that ends in '/wiki/'.
GateURLs == {NoURL, PageUrl(TitleX), <<WikiHost, "/wiki/">>}

NotCalled == [exc |-> FALSE, value |-> NoneV, reason |-> "not called",
              searchCalls |-> 0, pageCalls |-> 0]

-----------------------------------------------------------------------------
(* SpecGate: getFromWikipedia applied to bounded inputs                    *)

SearchIdle ==
    /\ sIn = <<>> /\ got = NoMsg
    /\ cpc = "idle" /\ ret = NoneV /\ branch = "none" /\ wpc = "idle"
    /\ proc = "unstarted" /\ sig = {} /\ driver = "none" /\ attempt = 0
    /\ wurl = NoURL /\ buffer = <<>> /\ pipe = <<>> /\ puts = <<>>
    /\ aliveAtDeadline = FALSE /\ aliveAtReturn = FALSE
    /\ wlog = <<>> /\ putsAtDeadline = 0

OrchIdle ==
    /\ store = <<>> /\ opc = "idle" /\ run = 0 /\ DF = <<>> /\ row = 0
    /\ Mismatched = <<>> /\ last = <<>> /\ prevEnd = "none"
    /\ startStore = <<>> /\ hist = <<>>

GateIdle == gIn = <<>> /\ gOut = NotCalled

LibIdle == xIn = <<>> /\ xOut = <<>> /\ scan = <<>> /\ yf = <<>>

GateInit ==
    /\ gIn \in [Ticker : GateSymbols, URL : GateURLs,
                env : [search : GateSearches, fetch : Fetches, page : GatePages]]
    /\ gOut = NotCalled
    /\ SearchIdle
    /\ OrchIdle
    /\ LibIdle

GateCall ==
    /\ gOut = NotCalled
    /\ gOut' = getFromWikipedia(<<"C","o">>, gIn.Ticker, gIn.URL, gIn.env)
    /\ UNCHANGED <<gIn, searchVars, orchVars, libVars>>

GateNext == GateCall

SpecGate == GateInit /\ [][GateNext]_vars

-----------------------------------------------------------------------------
(* Claims about the symbol check, under SpecGate                           *)

\* sym occurs in val as a contiguous run of equal characters, case and all.
OccursIn(sym, val) ==
    \E k \in 1..(Len(val) + 1) :
        \A j \in 1..Len(sym) : k + j - 1 <= Len(val) /\ val[k + j - 1] = sym[j]

\* The identity card of the page the call was given.
GateCard == ParseVCard(gIn.env.page.html)

\* The call fetched the page and obtained the Page object.
GateGotPage == gOut # NotCalled /\ gOut.pageCalls = 1 /\ gIn.env.fetch = "ok"

\* The call returned a candidate (a URL, not the failure value).
GateAccepted == ~gOut.exc /\ gOut.value.items[1] # NoneV

\* C5: for every symbol and every identity card that has a 'Traded as' entry,
\* getFromWikipedia accepts the candidate if and only if the symbol occurs as
\* a case-sensitive contiguous substring of that entry's value; with value
\* "NASDAQ: ABC, NYSE: XYZ" it accepts "ABC" and "XYZ" and rejects "ABD" and
\* "abc".
C5_GateIffSubstring ==
    (GateGotPage /\ TradedAs \in DOMAIN GateCard) =>
        /\ GateAccepted <=> OccursIn(gIn.Ticker, GateCard[TradedAs])
        /\ GateCard[TradedAs] = NasdaqNyse =>
              /\ gIn.Ticker \in {ABC, XYZ} => GateAccepted
              /\ gIn.Ticker \in {ABD, abc} => ~GateAccepted

C5_Witness ==
    /\ GateGotPage
    /\ TradedAs \in DOMAIN GateCard
    /\ GateCard[TradedAs] = NasdaqNyse
    /\ gIn.Ticker = XYZ
    /\ GateAccepted

\* C6: for every symbol (the empty string included), a candidate whose
\* identity card has no 'Traded as' entry (the empty card of a page without
\* info table included) is rejected by getFromWikipedia.
C6_AbsentFieldRejected ==
    (GateGotPage /\ TradedAs \notin DOMAIN GateCard) => ~GateAccepted

-----------------------------------------------------------------------------
(* _search_with_timeout_worker (PT1_bingSeleniumScraping.py 306-338)       *)
(* The worker is a separate process.  Each action below is one step of it; *)
(* a step that is never taken is a worker that hangs there.                *)

RETRIES == 1

TickerA == <<"A">>

\* What search_bing_for_wiki may hand back: a page URL, or a URL that ends in
\* '/wiki/' (both non-empty, so both count as found).
FoundUrls == {PageUrl(TitleX), <<WikiHost, "/wiki/">>}

\* Pages the worker's page fetch may meet: one listing symbol A, one listing
\* another symbol, one without 'Traded as'.
SearchPages ==
    {[url |-> PageUrl(TitleX), html |-> h, content |-> SomeContent] :
        h \in {HtmlTraded(<<"A">>), HtmlTraded(<<"B">>), HtmlNoTradedAs}}
SearchEnvs ==
    [search : {[kind |-> "empty", title |-> <<>>]}, fetch : Fetches, page : SearchPages]

ErrText == <<"e","r","r">>

WRunning == proc = "running"

\* result_queue.put(m): the message goes to the queue's buffer; the feeder
\* thread writes it to the pipe later.
Put(m) == buffer' = Append(buffer, m) /\ puts' = Append(puts, m)

\* Lines 311-312: create_driver returns a session or raises.
WCreateDriver ==
    /\ WRunning /\ wpc = "create_driver"
    /\ \/ driver' = "open" /\ wpc' = "loop" /\ attempt' = 1
       \/ driver' = driver /\ wpc' = "except" /\ attempt' = attempt
    /\ UNCHANGED <<sIn, cpc, got, ret, branch, proc, sig, wurl, buffer, pipe, puts,
                   aliveAtDeadline, aliveAtReturn, wlog,
                   putsAtDeadline, gateVars, orchVars, libVars>>

\* Line 315: for attempt in range(1, retries + 1)
WLoop ==
    /\ WRunning /\ wpc = "loop"
    /\ wpc' = IF attempt <= sIn.retries THEN "search" ELSE "after_loop"
    /\ UNCHANGED <<sIn, cpc, got, ret, branch, proc, sig, driver, attempt, wurl, buffer,
                   pipe, puts, aliveAtDeadline, aliveAtReturn, wlog,
                   putsAtDeadline, gateVars, orchVars, libVars>>

\* A faulty variant of the backoff test: sleeps after every attempt without a URL.
BackoffAlways(a, retries) == TRUE

\* Line 320: if attempt < retries
BackoffDue(a, retries) == a < retries

\* Lines 316-320: one search attempt: a URL (break), nothing, or an exception.
WSearch ==
    /\ WRunning /\ wpc = "search"
    /\ \/ /\ \E u \in FoundUrls : wurl' = u
          /\ wpc' = "after_loop" /\ attempt' = attempt
          /\ wlog' = Append(wlog, "hit")
       \/ /\ wurl' = NoURL
          /\ IF BackoffDue(attempt, sIn.retries)
             THEN wpc' = "backoff" /\ attempt' = attempt
             ELSE wpc' = "loop" /\ attempt' = attempt + 1
          /\ wlog' = Append(wlog, "miss")
       \/ /\ wurl' = wurl /\ wpc' = "except" /\ attempt' = attempt
          /\ wlog' = Append(wlog, "raise")
    /\ UNCHANGED <<sIn, cpc, got, ret, branch, proc, sig, driver, buffer, pipe, puts,
                   aliveAtDeadline, aliveAtReturn,
                   putsAtDeadline, gateVars, orchVars, libVars>>

\* Lines 321-322: the polite backoff between two attempts.
WBackoff ==
    /\ WRunning /\ wpc = "backoff"
    /\ wpc' = "loop" /\ attempt' = attempt + 1
    /\ wlog' = Append(wlog, "sleep")
    /\ UNCHANGED <<sIn, cpc, got, ret, branch, proc, sig, driver, wurl, buffer, pipe,
                   puts, aliveAtDeadline, aliveAtReturn,
                   putsAtDeadline, gateVars, orchVars, libVars>>

\* Lines 324-327: page fetch and check through getFromWikipedia, then the
\* 'success' message; an exception of the fetch goes to the handler.  big says
\* whether the pickled message exceeds the pipe's capacity.
WFetch ==
    /\ WRunning /\ wpc = "after_loop" /\ wurl # NoURL
    /\ \E env \in SearchEnvs, big \in BOOLEAN :
          LET wiki_data == getFromWikipedia(sIn.company, sIn.ticker, wurl, env) IN
          IF wiki_data.exc
          THEN wpc' = "except" /\ UNCHANGED <<buffer, puts>>
          ELSE /\ Put(Msg("success", Str(wurl), wiki_data.value,
                          big /\ wiki_data.value # Failure3))
               /\ wpc' = "finally"
    /\ wlog' = Append(wlog, "fetch")
    /\ UNCHANGED <<sIn, cpc, got, ret, branch, proc, sig, driver, attempt, wurl, pipe,
                   aliveAtDeadline, aliveAtReturn,
                   putsAtDeadline, gateVars, orchVars, libVars>>

\* Lines 328-329
WNoUrl ==
    /\ WRunning /\ wpc = "after_loop" /\ wurl = NoURL
    /\ Put(Msg("no_url", NoneV, NoneV, FALSE))
    /\ wpc' = "finally"
    /\ UNCHANGED <<sIn, cpc, got, ret, branch, proc, sig, driver, attempt, wurl, pipe,
                   aliveAtDeadline, aliveAtReturn, wlog,
                   putsAtDeadline, gateVars, orchVars, libVars>>

\* A faulty variant of the handler: it swallows the exception without reporting it.
WExceptSilent ==
    /\ WRunning /\ wpc = "except"
    /\ wpc' = "finally"
    /\ UNCHANGED <<sIn, cpc, got, ret, branch, proc, sig, driver, attempt, wurl, buffer,
                   pipe, puts, aliveAtDeadline, aliveAtReturn, wlog,
                   putsAtDeadline, gateVars, orchVars, libVars>>

\* Lines 331-332: except Exception as err: put(('error', None, str(err)))
WExcept ==
    /\ WRunning /\ wpc = "except"
    /\ Put(Msg("error", NoneV, Str(ErrText), FALSE))
    /\ wpc' = "finally"
    /\ UNCHANGED <<sIn, cpc, got, ret, branch, proc, sig, driver, attempt, wurl, pipe,
                   aliveAtDeadline, aliveAtReturn, wlog,
                   putsAtDeadline, gateVars, orchVars, libVars>>

\* Lines 333-338: finally: driver.quit() if a driver was created.
WFinally ==
    /\ WRunning /\ wpc = "finally"
    /\ driver' = IF driver = "open" THEN "quit" ELSE driver
    /\ wpc' = "returned"
    /\ UNCHANGED <<sIn, cpc, got, ret, branch, proc, sig, attempt, wurl, buffer, pipe,
                   puts, aliveAtDeadline, aliveAtReturn, wlog,
                   putsAtDeadline, gateVars, orchVars, libVars>>

\* The queue's feeder thread (multiprocessing.Queue, created at line 351 and
\* used at 327/329/332): writes the oldest buffered message to the pipe.  A
\* message larger than the pipe is written in part and the feeder then waits
\* for the reader, which in getFromBingSelenium reads only after the worker
\* is dead.
WFeeder ==
    /\ WRunning /\ buffer # <<>>
    /\ IF Head(buffer).big
       THEN /\ pipe = <<>>
            /\ pipe' = <<[msg |-> Head(buffer), complete |-> FALSE]>>
            /\ buffer' = buffer
       ELSE /\ pipe' = Append(pipe, [msg |-> Head(buffer), complete |-> TRUE])
            /\ buffer' = Tail(buffer)
    /\ UNCHANGED <<sIn, cpc, got, ret, branch, wpc, proc, sig, driver, attempt, wurl,
                   puts, aliveAtDeadline, aliveAtReturn, wlog,
                   putsAtDeadline, gateVars, orchVars, libVars>>

\* The process ends after the target returned; at exit it joins the feeder
\* thread, so it ends only once the buffer is flushed.
WExit ==
    /\ WRunning /\ wpc = "returned" /\ buffer = <<>>
    /\ proc' = "exited"
    /\ UNCHANGED <<sIn, cpc, got, ret, branch, wpc, sig, driver, attempt, wurl, buffer,
                   pipe, puts, aliveAtDeadline, aliveAtReturn, wlog,
                   putsAtDeadline, gateVars, orchVars, libVars>>

\* A posted SIGTERM or SIGKILL takes effect: the process ends where it stands
\* (no handler is installed, so no finally block runs).
WDieOfSignal ==
    /\ WRunning /\ sig # {}
    /\ proc' = "killed"
    /\ UNCHANGED <<sIn, cpc, got, ret, branch, wpc, sig, driver, attempt, wurl, buffer,
                   pipe, puts, aliveAtDeadline, aliveAtReturn, wlog,
                   putsAtDeadline, gateVars, orchVars, libVars>>

\* The process dies on its own (a crash of the interpreter or of the host).
WCrash ==
    /\ WRunning /\ sig = {}
    /\ proc' = "crashed"
    /\ UNCHANGED <<sIn, cpc, got, ret, branch, wpc, sig, driver, attempt, wurl, buffer,
                   pipe, puts, aliveAtDeadline, aliveAtReturn, wlog,
                   putsAtDeadline, gateVars, orchVars, libVars>>

-----------------------------------------------------------------------------
(* getFromBingSelenium (PT1_bingSeleniumScraping.py 341-389): the caller   *)

\* Time is not measured: a join with a timeout (SEARCH_TIMEOUT = 120 s at line
\* 359, 5 s at line 365) may return at any point of the worker's run.

\* Process.is_alive()
IsAlive == proc = "running"

\* Lines 351-356: the queue is created and the worker process started.
CStart ==
    /\ cpc = "start"
    /\ proc' = "running" /\ wpc' = "create_driver"
    /\ cpc' = "join"
    /\ UNCHANGED <<sIn, got, ret, branch, sig, driver, attempt, wurl, buffer, pipe, puts,
                   aliveAtDeadline, aliveAtReturn, wlog,
                   putsAtDeadline, gateVars, orchVars, libVars>>

\* Line 359: worker.join(timeout=SEARCH_TIMEOUT) returns, because the worker
\* ended or because the timeout elapsed (at any point of the worker's run).
CJoin ==
    /\ cpc = "join"
    /\ cpc' = "check_alive"
    /\ putsAtDeadline' = Len(puts)
    /\ UNCHANGED <<sIn, got, ret, branch, wpc, proc, sig, driver, attempt, wurl, buffer,
                   pipe, puts, aliveAtDeadline, aliveAtReturn, wlog,
                   gateVars, orchVars, libVars>>

\* Line 362: if worker.is_alive()
CCheckAlive ==
    /\ cpc = "check_alive"
    /\ aliveAtDeadline' = IsAlive
    /\ cpc' = IF IsAlive THEN "terminate" ELSE "read"
    /\ UNCHANGED <<sIn, got, ret, branch, wpc, proc, sig, driver, attempt, wurl, buffer,
                   pipe, puts, aliveAtReturn, wlog,
                   putsAtDeadline, gateVars, orchVars, libVars>>

\* Line 364: worker.terminate() posts SIGTERM.
CTerminate ==
    /\ cpc = "terminate"
    /\ sig' = sig \cup {"SIGTERM"}
    /\ cpc' = "grace_join"
    /\ UNCHANGED <<sIn, got, ret, branch, wpc, proc, driver, attempt, wurl, buffer, pipe,
                   puts, aliveAtDeadline, aliveAtReturn, wlog,
                   putsAtDeadline, gateVars, orchVars, libVars>>

\* Line 365: worker.join(timeout=5) returns, the worker ended or not.
CGraceJoin ==
    /\ cpc = "grace_join"
    /\ cpc' = "check_alive_again"
    /\ UNCHANGED <<sIn, got, ret, branch, wpc, proc, sig, driver, attempt, wurl, buffer,
                   pipe, puts, aliveAtDeadline, aliveAtReturn, wlog,
                   putsAtDeadline, gateVars, orchVars, libVars>>

\* Line 366: if worker.is_alive()
CCheckAliveAgain ==
    /\ cpc = "check_alive_again"
    /\ cpc' = IF IsAlive THEN "kill" ELSE "return_timeout"
    /\ UNCHANGED <<sIn, got, ret, branch, wpc, proc, sig, driver, attempt, wurl, buffer,
                   pipe, puts, aliveAtDeadline, aliveAtReturn, wlog,
                   putsAtDeadline, gateVars, orchVars, libVars>>

\* Line 367: worker.kill() posts SIGKILL and returns at once.
CKill ==
    /\ cpc = "kill"
    /\ sig' = sig \cup {"SIGKILL"}
    /\ cpc' = "return_timeout"
    /\ UNCHANGED <<sIn, got, ret, branch, wpc, proc, driver, attempt, wurl, buffer, pipe,
                   puts, aliveAtDeadline, aliveAtReturn, wlog,
                   putsAtDeadline, gateVars, orchVars, libVars>>

\* The call returns v after printing the message of branch b.
Return(v, b) ==
    /\ ret' = v /\ branch' = b /\ cpc' = "returned"
    /\ aliveAtReturn' = IsAlive

\* Line 368: return None (the timeout branch).
CReturnTimeout ==
    /\ cpc = "return_timeout"
    /\ Return(NoneV, "timeout")
    /\ UNCHANGED <<sIn, got, wpc, proc, sig, driver, attempt, wurl, buffer, pipe, puts,
                   aliveAtDeadline, wlog,
                   putsAtDeadline, gateVars, orchVars, libVars>>

\* Line 375: if data
DataOk(data) == Truthy(data)

\* Lines 374-386: the value returned and the message printed for a message.
ResultOf(m) ==
    CASE m.status = "success" ->
            IF DataOk(m.data) THEN [v |-> m.data, b |-> "validation_success"]
            ELSE [v |-> NoneV, b |-> "validation_failed"]
      [] m.status = "no_url" -> [v |-> NoneV, b |-> "no_url"]
      [] m.status = "error"  -> [v |-> NoneV, b |-> "error"]
      [] OTHER               -> [v |-> NoneV, b |-> "no_result"]

\* Lines 371-389 when the queue holds nothing readable: 'No result returned'.
CReadEmpty ==
    /\ cpc = "read" /\ pipe = <<>>
    /\ Return(NoneV, "no_result")
    /\ UNCHANGED <<sIn, got, wpc, proc, sig, driver, attempt, wurl, buffer, pipe, puts,
                   aliveAtDeadline, wlog,
                   putsAtDeadline, gateVars, orchVars, libVars>>

\* Lines 371-386: result_queue.get() of a whole message and the branch on it.
\* (With only part of a message in the pipe, get() does not return.)
CReadMessage ==
    /\ cpc = "read" /\ pipe # <<>> /\ Head(pipe).complete
    /\ got' = Head(pipe).msg
    /\ pipe' = Tail(pipe)
    /\ Return(ResultOf(Head(pipe).msg).v, ResultOf(Head(pipe).msg).b)
    /\ UNCHANGED <<sIn, wpc, proc, sig, driver, attempt, wurl, buffer, puts,
                   aliveAtDeadline, wlog,
                   putsAtDeadline, gateVars, orchVars, libVars>>

-----------------------------------------------------------------------------
(* SpecSearch: one call of getFromBingSelenium                             *)

SearchInit ==
    /\ sIn \in [company : {<<"C","o">>}, ticker : {TickerA}, retries : {RETRIES} \cup 0..MaxRetries]
    /\ cpc = "start" /\ got = NoMsg /\ ret = NoneV /\ branch = "none"
    /\ wpc = "idle" /\ proc = "unstarted" /\ sig = {} /\ driver = "none"
    /\ attempt = 0 /\ wurl = NoURL /\ buffer = <<>> /\ pipe = <<>> /\ puts = <<>>
    /\ aliveAtDeadline = FALSE /\ aliveAtReturn = FALSE
    /\ wlog = <<>> /\ putsAtDeadline = 0
    /\ GateIdle
    /\ OrchIdle
    /\ LibIdle

WorkerNext ==
    \/ WCreateDriver \/ WLoop \/ WSearch \/ WBackoff \/ WFetch \/ WNoUrl
    \/ WExcept \/ WFinally \/ WFeeder \/ WExit \/ WDieOfSignal \/ WCrash

CallerNext ==
    \/ CStart \/ CJoin \/ CCheckAlive \/ CTerminate \/ CGraceJoin
    \/ CCheckAliveAgain \/ CKill \/ CReturnTimeout \/ CReadEmpty \/ CReadMessage

SearchNext == WorkerNext \/ CallerNext

SpecSearch == SearchInit /\ [][SearchNext]_vars

\* The caller's own steps are always taken when they can be: both joins have
\* a timeout (lines 359, 365) and the other statements do not wait, except
\* result_queue.get() at line 372, which waits for a whole message.  Nothing
\* is assumed about the worker: it may stop at any step.
SpecSearchFair == SearchInit /\ [][SearchNext]_vars /\ WF_vars(CallerNext)

-----------------------------------------------------------------------------
(* Claims about the search call, under SpecSearch                          *)

\* C1: whenever the worker is still alive at the check that follows the
\* deadline join, the call returns None (timeout) and the worker process is
\* no longer running at the moment the call returns, whatever the worker
\* does, also when it outlives the 5-second grace join after terminate().
C1_TimeoutStopsWorker ==
    (cpc = "returned" /\ aliveAtDeadline) => (ret = NoneV /\ ~aliveAtReturn)

\* C2: getFromBingSelenium returns a value other than None only for a page
\* that passed the symbol check, and a 'success' message carrying the failure
\* value of getFromWikipedia takes the 'Validation failed' branch and
\* returns None (stated for a worker that ran to its end and exited).
C2_OnlyCheckedPagesReturned ==
    (cpc = "returned" /\ proc = "exited") =>
        /\ ret # NoneV => (ret.t = "tuple" /\ ret.items[1] # NoneV)
        /\ (got.status = "success" /\ got.data = Failure3) =>
                (branch = "validation_failed" /\ ret = NoneV)

\* The three messages the worker may report.
WellFormedMsg(m) ==
    \/ m.status = "success" /\ m.url.t = "str" /\ m.url.v # <<>> /\ m.data.t = "tuple"
    \/ m.status = "no_url"  /\ m.url = NoneV /\ m.data = NoneV
    \/ m.status = "error"   /\ m.url = NoneV /\ m.data.t = "str"

\* C9: a worker that runs to the end of its function (is not ended by a
\* signal or a crash before) has put exactly one message on the result queue,
\* one of ('success', url, data), ('no_url', None, None),
\* ('error', None, message); no worker ever puts two.
C9_OneShotResult ==
    /\ Len(puts) <= 1
    /\ wpc = "returned" => (Len(puts) = 1 /\ WellFormedMsg(puts[1]))

C9_Witness ==
    /\ wpc = "returned" /\ proc = "exited"
    /\ Len(puts) = 1 /\ puts[1].status = "error" /\ driver = "quit"

\* C10: whenever the worker process has ended after a driver was created,
\* by returning (success, no URL, exception) or by the termination the caller
\* issues after the deadline, its browser session was released before.
C10_SessionReleased ==
    proc \in {"exited", "killed"} => driver # "open"

\* C11: in every interleaving in which the worker has put its message on the
\* result queue before the deadline join returns, getFromBingSelenium takes
\* that message and returns what it encodes instead of reporting a timeout,
\* also when the worker cannot finish exiting before the queue is read.
C11_ResultBeforeDeadlineConsumed ==
    (cpc = "returned" /\ putsAtDeadline >= 1) =>
        /\ branch # "timeout"
        /\ got = puts[1]
        /\ ret = ResultOf(puts[1]).v

\* C21: every call of getFromBingSelenium eventually returns, whatever the
\* worker does (hangs, crashes, exits without result, ignores terminate());
\* the caller blocks forever neither on a join nor on reading the queue.
C21_CallEventuallyReturns == <>(cpc = "returned")

\* C14: every value getFromBingSelenium returns is None or a mapping with
\* the keys 'url', 'vcard' and 'content'.
C14_ResultIsNoneOrMapping ==
    cpc = "returned" =>
        \/ ret = NoneV
        \/ ret.t = "dict" /\ {"url", "vcard", "content"} \subseteq DOMAIN ret.v

\* The positions of the worker's log that are search attempts.
SearchEvents == {"hit", "miss", "raise"}
SearchesBefore(i) == Cardinality({j \in 1..(i - 1) : wlog[j] \in SearchEvents})

\* C19: the worker makes at most `retries` search attempts and none after the
\* first that yields a URL; it sleeps the backoff only between two attempts
\* (after an attempt without URL that is not the last one); it calls the page
\* fetch at most once and only right after an attempt yielded a URL; with
\* retries = 0 it makes no search and reports 'no_url'.
C19_RetrySequence ==
    /\ SearchesBefore(Len(wlog) + 1) <= sIn.retries
    /\ \A i \in 1..Len(wlog) :
          /\ wlog[i] = "hit" => \A j \in (i + 1)..Len(wlog) : wlog[j] = "fetch"
          /\ wlog[i] = "sleep" =>
                /\ i > 1 /\ wlog[i - 1] = "miss"
                /\ SearchesBefore(i) < sIn.retries
                /\ i < Len(wlog) => wlog[i + 1] \in SearchEvents
                /\ i = Len(wlog) => wpc \in {"loop", "search"}
          /\ wlog[i] = "fetch" => (i > 1 /\ wlog[i - 1] = "hit" /\ i = Len(wlog))
    /\ sIn.retries = 0 =>
          /\ wlog = <<>>
          /\ (wpc = "returned" /\ driver # "none") => puts[1].status = "no_url"

C19_Witness ==
    /\ wpc = "returned" /\ sIn.retries = 2
    /\ wlog = <<"miss", "sleep", "hit", "fetch">>

-----------------------------------------------------------------------------
(* The PortfolioIntelligence collection (PT1_wikiScraping.py 27-36)        *)
(* A document is a record; a field the document does not have is Missing.  *)
(* The collection is the sequence of its documents in natural order, and   *)
(* _id is the document's position in it.                                   *)

Missing == [t |-> "missing"]

Wikipedia == <<"w","i","k","i","p","e","d","i","a">>

TickerB == <<"B">>
OrchTickers == {TickerA, TickerB}
HoldingDate == <<"d","1">>
IdChar == <<"1", "2", "3", "4", "5">>
CompanyOf(id) == <<"C", "o", IdChar[id]>>
FooInc == <<"F","o","o"," ","I","n","c">>

\* Pages the primary lookup may meet.  The first lists symbol A and its text
\* names Foo; the second lists A and B and its text does not name Foo.
Bar == <<"B","a","r","[","2","]">>
OrchPages ==
    {[url |-> PageUrl(<<"F">>), html |-> HtmlTraded(<<"N",":"," ","A">>), content |-> SomeContent],
     [url |-> PageUrl(<<"G">>), html |-> HtmlTraded(<<"A",","," ","B">>), content |-> Bar]}
OrchEnvs ==
    [search : {[kind |-> "raise", title |-> <<>>], [kind |-> "empty", title |-> <<>>],
               [kind |-> "hit", title |-> TitleX]},
     fetch : Fetches, page : OrchPages]

Untagged(id, ticker) ==
    [_id |-> id, ticker |-> Str(ticker), etf_holding_date |-> Str(HoldingDate),
     company_name |-> Str(CompanyOf(id)), name |-> Str(FooInc),
     wiki_resolver |-> Missing, wiki_url |-> Missing,
     wiki_vcard |-> Missing, wiki_content |-> Missing]

\* The fields of the $set document of lines 168-175.
SetDoc(Ticker, Company, value) ==
    [ticker |-> Str(Ticker), company_name |-> Str(Company),
     wiki_url |-> value.items[1], wiki_content |-> value.items[3],
     wiki_vcard |-> value.items[2], wiki_resolver |-> Str(Wikipedia)]

\* $set: the named fields replaced, every other field kept.
ApplySet(d, set) ==
    [f \in DOMAIN d |-> IF f \in DOMAIN set THEN set[f] ELSE d[f]]

\* A document a former run resolved from page p.
Tagged(id, ticker, p) ==
    ApplySet(Untagged(id, ticker),
             SetDoc(ticker, CompanyOf(id),
                    Tuple3(Str(p.url), Dict(ParseVCard(p.html)),
                           Str(CleanWikipediaContent(p.content)))))

HasTag(d) == d.wiki_resolver # Missing

\* The documents a filter on ticker and etf_holding_date matches (line 177).
Matches(st, Ticker, Date) ==
    {i \in 1..Len(st) : st[i].ticker = Str(Ticker) /\ st[i].etf_holding_date = Date}

\* update_one updates the first document, in natural order, the filter matches.
FirstMatch(st, Ticker, Date) ==
    CHOOSE i \in Matches(st, Ticker, Date) : \A j \in Matches(st, Ticker, Date) : i <= j

\* $regexMatch with options "i" for a pattern of plain characters.
RegexMatchNoCase(input, pattern) == In(Lower(pattern), Lower(input))

\* $arrayElemAt: [{$split: ["$name", " "]}, 0]  then  $substrCP 0, 6
RECURSIVE FirstWord(_)
FirstWord(text) ==
    IF text = <<>> \/ text[1] = " " THEN <<>> ELSE <<text[1]>> \o FirstWord(Tail(text))
FirstSix(text) == SubSeq(text, 1, IF Len(text) < 6 THEN Len(text) ELSE 6)

\* $replaceAll of "'" by ""
RECURSIVE DropQuotes(_)
DropQuotes(text) ==
    IF text = <<>> THEN <<>>
    ELSE (IF text[1] = "'" THEN <<>> ELSE <<text[1]>>) \o DropQuotes(Tail(text))

\* The query of lines 194-225: tagged, and the text does not hold the first
\* six characters of the first word of name (a missing text never matches).
IsMismatched(d) ==
    /\ HasTag(d)
    /\ ~ ( /\ d.wiki_content # Missing
           /\ RegexMatchNoCase(DropQuotes(d.wiki_content.v), FirstSix(FirstWord(d.name.v))) )

-----------------------------------------------------------------------------
(* The module-level script of PT1_wikiScraping.py (lines 144-241)          *)

NoIter ==
    [index |-> 0, id |-> 0, fetch |-> "none", reason |-> "none", exc |-> FALSE,
     value |-> NoneV, searchCalls |-> 0, pageCalls |-> 0, adapters |-> <<>>,
     wrote |-> FALSE, writeRaised |-> FALSE, target |-> 0, targetHadTag |-> FALSE,
     changed |-> FALSE, printed |-> "none", before |-> <<>>]

NoHist(st) == [i \in 1..Len(st) |-> [n |-> 0, failed |-> FALSE]]

Microsoft == <<"M","i","c","r","o","s","o","f","t">>
MSFT == <<"M","S","F","T">>
TestEnvs == {e \in OrchEnvs : e.search.kind = "hit" /\ e.page.url = PageUrl(<<"F">>)}

\* Line 165 tabulated: for each (Company, Ticker) of the collection, what
\* getFromWikipedia(Company, Ticker) may do, one entry per answer of the site.
Companies == {CompanyOf(i) : i \in 1..MaxDocs}
PrimaryLookup ==
    [ct \in Companies \X OrchTickers |->
        {[fetch |-> env.fetch, r |-> getFromWikipedia(ct[1], ct[2], NoURL, env)] :
            env \in OrchEnvs}]
TestLookup == {getFromWikipedia(Microsoft, MSFT, NoURL, e).exc : e \in TestEnvs}

\* Lines 145-151: the two test calls made when the module is loaded.  An
\* exception getFromWikipedia does not handle ends the script here.
OImport ==
    /\ opc = "import"
    /\ \E raised \in TestLookup : opc' = IF raised THEN "aborted" ELSE "find"
    /\ UNCHANGED <<store, run, DF, row, Mismatched, last, prevEnd, startStore, hist,
                   gateVars, searchVars, libVars>>

NeedsResolution(d) == ~HasTag(d)

\* Line 153: the batch: every document without wiki_resolver, as rows.
OFind ==
    /\ opc = "find"
    /\ \/ /\ DF' = SelectSeq(store, NeedsResolution)
          /\ row' = 1
          /\ opc' = "loop"
       \/ /\ opc' = "aborted"      \* the read fails: the run ends
          /\ UNCHANGED <<DF, row>>
    /\ UNCHANGED <<store, run, Mismatched, last, prevEnd, startStore, hist,
                   gateVars, searchVars, libVars>>

\* A faulty variant of the handler: the exception is not caught and ends the
\* script.
ExceptFatal(entry, id) ==
    /\ store' = store
    /\ last' = [entry EXCEPT !.printed = "traceback"]
    /\ hist' = [hist EXCEPT ![id] = [n |-> @.n + 1, failed |-> TRUE]]
    /\ row' = row /\ opc' = "aborted"

\* Lines 182-185: except Exception: the message is printed and the loop goes
\* on with the sleep and the next row.
Except(entry, id) ==
    /\ store' = store
    /\ last' = [entry EXCEPT !.printed = "unhandled"]
    /\ hist' = [hist EXCEPT ![id] = [n |-> @.n + 1, failed |-> TRUE]]
    /\ row' = row + 1 /\ opc' = opc

\* Lines 156-185: one iteration of the loop: the primary lookup, the write
\* when it produced a URL, the message, the sleep.
OIter ==
    /\ opc = "loop" /\ row <= Len(DF)
    /\ LET Row == DF[row]
           Company == Row.company_name.v
           Ticker == Row.ticker.v
       IN \E call \in PrimaryLookup[<<Company, Ticker>>] :
          LET r == call.r      \* getFromWikipedia(Company, Ticker)
              URL == IF r.exc THEN NoneV ELSE r.value.items[1]
              base == [NoIter EXCEPT !.index = row, !.id = Row._id, !.fetch = call.fetch,
                                     !.reason = r.reason, !.exc = r.exc, !.value = r.value,
                                     !.searchCalls = r.searchCalls,
                                     !.pageCalls = r.pageCalls,
                                     !.adapters = <<"getFromWikipedia">>]
          IN
          IF r.exc
          THEN \* the call raised: line 182
               Except(base, Row._id)
          ELSE IF Truthy(URL)
          THEN \/ \* lines 176-179: update_one on the first document the filter finds
                  LET t == FirstMatch(store, Ticker, Row.etf_holding_date) IN
                     /\ store' = [store EXCEPT ![t] = ApplySet(@, SetDoc(Ticker, Company, r.value))]
                     /\ last' = [base EXCEPT !.wrote = TRUE, !.target = t,
                                             !.targetHadTag = HasTag(store[t]),
                                             !.changed = (store'[t] # store[t]),
                                             !.printed = "no_valid",
                                             !.before = store[t]]
                     /\ hist' = [hist EXCEPT ![Row._id] = [n |-> @.n + 1, failed |-> @.failed]]
                     /\ row' = row + 1 /\ opc' = opc
               \/ \* update_one raises: line 182
                  Except([base EXCEPT !.writeRaised = TRUE], Row._id)
          ELSE \* lines 180-181
               /\ store' = store
               /\ last' = [base EXCEPT !.printed = "fetched"]
               /\ hist' = [hist EXCEPT ![Row._id] = [n |-> @.n + 1, failed |-> TRUE]]
               /\ row' = row + 1 /\ opc' = opc
    /\ UNCHANGED <<run, DF, Mismatched, prevEnd, startStore, gateVars, searchVars, libVars>>

\* Lines 187-192 after the loop: DoneDF.wiki_url raises AttributeError when no
\* tagged document brings a wiki_url column, which ends the script.
ODoneStats ==
    /\ opc = "loop" /\ row > Len(DF)
    /\ opc' = IF \E i \in 1..Len(store) : HasTag(store[i]) /\ store[i].wiki_url # Missing
              THEN "mismatch_find" ELSE "aborted"
    /\ UNCHANGED <<store, run, DF, row, Mismatched, last, prevEnd, startStore, hist,
                   gateVars, searchVars, libVars>>

\* Line 228: Mismatched = list(Collection.find(query))
OMismatchFind ==
    /\ opc = "mismatch_find"
    /\ Mismatched' = SelectSeq(store, IsMismatched)
    /\ opc' = "fix"
    /\ UNCHANGED <<store, run, DF, row, last, prevEnd, startStore, hist,
                   gateVars, searchVars, libVars>>

\* Lines 233-241: one iteration: $unset wiki_resolver on the document's _id.
OFix ==
    /\ opc = "fix" /\ Mismatched # <<>>
    /\ store' = [store EXCEPT ![Head(Mismatched)._id].wiki_resolver = Missing]
    /\ Mismatched' = Tail(Mismatched)
    /\ UNCHANGED <<opc, run, DF, row, last, prevEnd, startStore, hist,
                   gateVars, searchVars, libVars>>

OFixEnd ==
    /\ opc = "fix" /\ Mismatched = <<>>
    /\ opc' = "done"
    /\ UNCHANGED <<store, run, DF, row, Mismatched, last, prevEnd, startStore, hist,
                   gateVars, searchVars, libVars>>

\* The script is run again on the store the former run left.
ORunAgain ==
    /\ opc \in {"done", "aborted"} /\ run < MaxRuns
    /\ run' = run + 1
    /\ opc' = "import"
    /\ prevEnd' = opc
    /\ DF' = <<>> /\ row' = 0 /\ Mismatched' = <<>>
    /\ last' = NoIter /\ startStore' = store /\ hist' = NoHist(store)
    /\ UNCHANGED <<store, gateVars, searchVars, libVars>>

\* Store states the first run may find: every document either unresolved or
\* resolved by a former run; documents may share ticker and holding date.
InitDocs(id) ==
    {Untagged(id, t) : t \in OrchTickers}
        \cup {Tagged(id, tp[1], tp[2]) :
                 tp \in {x \in OrchTickers \X OrchPages : TickerCheck(x[1], ParseVCard(x[2].html))}}

RECURSIVE InitStores(_)
InitStores(n) ==
    IF n = 0 THEN {<<>>}
    ELSE LET S == InitStores(n - 1) IN
         S \cup {Append(st, d) : st \in {x \in S : Len(x) = n - 1}, d \in InitDocs(n)}

Init ==
    /\ store \in InitStores(MaxDocs)
    /\ opc = "import" /\ run = 1 /\ DF = <<>> /\ row = 0 /\ Mismatched = <<>>
    /\ last = NoIter /\ prevEnd = "none" /\ startStore = store /\ hist = NoHist(store)
    /\ GateIdle
    /\ SearchIdle
    /\ LibIdle

Next ==
    \/ OImport \/ OFind \/ OIter \/ ODoneStats \/ OMismatchFind
    \/ OFix \/ OFixEnd \/ ORunAgain

Spec == Init /\ [][Next]_vars

-----------------------------------------------------------------------------
(* Claims about the script, under Spec                                     *)

\* C3: when the script is run again after a completed run, the batch holds no
\* record that carried wiki_resolver when this run started, and no outcome
\* write of this run lands on such a record, also when several records share
\* the same (ticker, etf_holding_date).
C3_NoSecondResolution ==
    (run >= 2 /\ prevEnd = "done") =>
        /\ \A i \in 1..Len(DF) : ~HasTag(startStore[DF[i]._id])
        /\ last.wrote => ~HasTag(startStore[last.target])

\* C4: after an iteration in which getFromWikipedia returned a candidate
\* that cleared the symbol check (and update_one returned), no other adapter
\* was invoked for the record and the record itself carries the primary
\* resolver tag.
C4_PrimarySuccessPersisted ==
    (opc = "loop" /\ last.reason = "ok" /\ last.wrote) =>
        /\ last.adapters = <<"getFromWikipedia">>
        /\ store[last.id].wiki_resolver = Str(Wikipedia)

\* C7: when the page fetch of an iteration meets a disambiguation set, the
\* adapter returns its failure value after that single fetch (no option is
\* fetched), nothing is written for the record, and the loop is at the next
\* record.
C7_AmbiguousIsHardMiss ==
    (opc = "loop" /\ last.index > 0 /\ last.fetch = "DisambiguationError"
                  /\ last.pageCalls >= 1) =>
        /\ ~last.exc /\ last.value = Failure3
        /\ last.pageCalls = 1
        /\ ~last.wrote /\ ~last.changed
        /\ row = last.index + 1

C7_Witness ==
    /\ opc = "loop" /\ last.index = 1 /\ last.fetch = "DisambiguationError"
    /\ last.pageCalls = 1 /\ last.reason = "ambiguous"
    /\ row = 2 /\ Len(DF) >= 2
    /\ store = startStore

\* C8: a record of the batch whose attempt failed in this run (failure value,
\* rejected candidate, or exception) is stored exactly as it was when the run
\* started, and was attempted at most once.
C8_FailedUntouched ==
    \A i \in 1..Len(store) :
        hist[i].failed => (store[i] = startStore[i] /\ hist[i].n <= 1)

\* The latest iteration ended in a failure of its record: the adapter raised
\* or returned its failure value, or the store write raised.
LastFailed == last.index > 0 /\ (last.exc \/ last.writeRaised \/ last.value = Failure3)

\* C12: a failure or exception in the adapter call or in the store write of a
\* record is caught at the loop: the loop is then at the next record, and the
\* loop is left only after every record of the batch was visited.
C12_NoRecordFailureFatal ==
    /\ LastFailed => (row = last.index + 1 /\ (opc = "loop" \/ row > Len(DF)))
    /\ opc \notin {"import", "find", "loop"} =>
          \A i \in 1..Len(DF) : hist[DF[i]._id].n >= 1

C12_Witness ==
    /\ opc = "loop" /\ row > Len(DF) /\ Len(DF) = 2
    /\ last.index = 2 /\ last.writeRaised
    /\ hist[DF[1]._id].failed /\ hist[DF[1]._id].n = 1

\* The fields an outcome write is to set.
OutcomeFields == {"wiki_resolver", "wiki_url", "wiki_vcard", "wiki_content", "resolved_at"}

\* C13: every outcome write updates one document that has the record's
\* ticker and etf_holding_date, sets all of resolver tag, source URL, identity
\* card, narrative and a resolved-at timestamp, and changes no other field.
C13_OutcomeWriteShape ==
    (opc = "loop" /\ last.wrote) =>
        LET d == store[last.target]
            b == last.before
        IN /\ d.ticker = DF[last.index].ticker
           /\ d.etf_holding_date = DF[last.index].etf_holding_date
           /\ \A f \in OutcomeFields : f \in DOMAIN d /\ d[f] # Missing
           /\ \A f \in DOMAIN b \ OutcomeFields : d[f] = b[f]

\* The outcome fields of a document.
OutcomeOf(d) == <<d.wiki_resolver, d.wiki_url, d.wiki_vcard, d.wiki_content>>

\* C23: once a record carries wiki_resolver, no later step of this run or of
\* a following run removes the tag or changes its wiki_url, wiki_vcard or
\* wiki_content.
C23_OutcomeStable ==
    [][\A i \in 1..Len(store) :
          HasTag(store[i]) => OutcomeOf(store'[i]) = OutcomeOf(store[i])]_vars

\* C25: for every record the loop processed, the success message ('Fetched
\* data') is printed exactly when an outcome was written for it and the
\* failure message ('No valid Wikipedia data') exactly when the adapter
\* produced nothing to write.
C25_MessageMatchesAction ==
    (opc = "loop" /\ last.index > 0) =>
        /\ last.printed = "fetched" <=> last.wrote
        /\ last.printed = "no_valid" <=> (~last.wrote /\ ~last.exc /\ ~last.writeRaised)

-----------------------------------------------------------------------------
(* getFromYahooFinance (PT1_yFinScraping.py 14-61)                         *)
(* yf holds one call: its argument, what the financial-data source answers *)
(* for the original symbol and for the dash variant, the position in the   *)
(* function, the Ticker object yf_ticker stands for, and the result.       *)

MaxDots == 2        \* most '.' separators in an enumerated ticker

longBusinessSummary == "longBusinessSummary"

vcard_columns == {"address1", "city", "state", "zip", "country", "phone", "website",
                  "industry", "industryKey", "industryDisp", "sector"}

QuoteUrl(ticker) == <<"https://finance.yahoo.com/quote/">> \o ticker

\* ticker.replace('.', '-')
DashFormat(ticker) == Replace(ticker, ".", "-")

\* Tickers with 0..MaxDots dot separators: "B", "B.B", "B.B.B"
RECURSIVE Dotted(_)
Dotted(n) == IF n = 0 THEN <<"B">> ELSE Dotted(n - 1) \o <<".", "B">>
YahooTickers == {Dotted(n) : n \in 0..MaxDots}

\* The summary text the source holds for a symbol.
SummaryOf(symbol) == <<"S", ":">> \o symbol

\* An answer of the source to the lookup of a symbol's info: an error, or a
\* mapping with or without the summary field (whose value may be empty or
\* None) and with or without other attributes.
OtherAttrs ==
    {EmptyDict, ("city" :> Str(<<"X">>)) @@ ("longName" :> Str(<<"N">>))}
SummaryFields(symbol) ==
    {EmptyDict, longBusinessSummary :> Str(<<>>), longBusinessSummary :> NoneV,
     longBusinessSummary :> Str(SummaryOf(symbol))}
Answers(symbol) ==
    {[raises |-> TRUE, info |-> EmptyDict]}
        \cup {[raises |-> FALSE, info |-> a @@ f] :
                  a \in OtherAttrs, f \in SummaryFields(symbol)}

YahooInit ==
    /\ \E t \in YahooTickers : \E o \in Answers(t), d \in Answers(DashFormat(t)) :
          yf = [ticker |-> t, orig |-> o, dash |-> d, pc |-> "start", obj |-> "none",
                queried |-> <<>>, out |-> NoneV]
    /\ xIn = <<>> /\ xOut = <<>> /\ scan = <<>>
    /\ GateIdle
    /\ SearchIdle
    /\ OrchIdle

\* Line 27: yf_ticker = yf.Ticker(ticker)
YTicker ==
    /\ yf.pc = "start"
    /\ yf' = [yf EXCEPT !.pc = "first_lookup", !.obj = "orig"]
    /\ UNCHANGED <<xIn, xOut, scan, gateVars, searchVars, orchVars>>

\* Line 30: the first lookup of yf_ticker.info, outside any try: an error of
\* the source leaves the function as an exception.
YFirstLookup ==
    /\ yf.pc = "first_lookup"
    /\ yf' = [yf EXCEPT !.queried = <<yf.ticker>>,
                        !.pc = IF yf.orig.raises THEN "raised"
                               ELSE IF longBusinessSummary \notin DOMAIN yf.orig.info
                                    THEN "dash" ELSE "build"]
    /\ UNCHANGED <<xIn, xOut, scan, gateVars, searchVars, orchVars>>

\* Lines 31-33: yf_ticker = yf.Ticker(ticker.replace('.', '-'))
YDash ==
    /\ yf.pc = "dash"
    /\ yf' = [yf EXCEPT !.pc = "build", !.obj = "dash"]
    /\ UNCHANGED <<xIn, xOut, scan, gateVars, searchVars, orchVars>>

\* Lines 35-61: the try block.  The info of the dash object is looked up here
\* for the first time (the info of the original is cached by the object).
YBuild ==
    /\ yf.pc = "build"
    /\ LET ans == IF yf.obj = "orig" THEN yf.orig ELSE yf.dash
           q == IF yf.obj = "dash" THEN Append(yf.queried, DashFormat(yf.ticker))
                ELSE yf.queried
           vcard_dictionary == [K \in DOMAIN ans.info \cap vcard_columns |-> ans.info[K]]
           content == DictGet(ans.info, longBusinessSummary, Str(<<>>))
           result == IF ans.raises THEN NoneV               \* lines 59-61
                     ELSE IF ~Truthy(content) THEN NoneV    \* lines 47-49
                     ELSE Dict([url |-> Str(QuoteUrl(yf.ticker)),
                                vcard |-> Dict(vcard_dictionary),
                                content |-> content])
       IN yf' = [yf EXCEPT !.pc = "done", !.queried = q, !.out = result]
    /\ UNCHANGED <<xIn, xOut, scan, gateVars, searchVars, orchVars>>

YahooNext == YTicker \/ YFirstLookup \/ YDash \/ YBuild

SpecYahoo == YahooInit /\ [][YahooNext]_vars

-----------------------------------------------------------------------------
(* Claims about getFromYahooFinance, under SpecYahoo                       *)

YEnded == yf.pc \in {"done", "raised"}

\* C15: for every ticker and every behaviour of the source (an error of the
\* first or of the second lookup included) the call returns None or a dict
\* with the keys 'url', 'vcard', 'content'; no exception reaches the caller.
C15_YahooFailureIsValue ==
    YEnded =>
        /\ yf.pc = "done"
        /\ \/ yf.out = NoneV
           \/ yf.out.t = "dict" /\ DOMAIN yf.out.v = {"url", "vcard", "content"}

HasSummary(ans) ==
    /\ ~ans.raises
    /\ longBusinessSummary \in DOMAIN ans.info
    /\ Truthy(ans.info[longBusinessSummary])
LacksField(ans) == ~ans.raises /\ longBusinessSummary \notin DOMAIN ans.info

\* The non-empty summary the two attempts make available: that of the
\* original symbol, or that of the dash variant when the first response
\* lacks the field.
Available ==
    (IF HasSummary(yf.orig) THEN {yf.orig.info[longBusinessSummary]} ELSE {})
        \cup (IF LacksField(yf.orig) /\ HasSummary(yf.dash)
              THEN {yf.dash.info[longBusinessSummary]} ELSE {})

\* C16: the original symbol is queried first, the dash variant at most once
\* and only when the first response lacks the summary field; the call returns
\* None exactly when no non-empty summary is available from the two, and
\* otherwise a candidate whose content is that summary.
C16_YahooAttempts ==
    YEnded =>
        /\ Len(yf.queried) \in 1..2 /\ yf.queried[1] = yf.ticker
        /\ Len(yf.queried) = 2 =>
              (yf.queried[2] = DashFormat(yf.ticker) /\ LacksField(yf.orig))
        /\ (yf.pc = "done" /\ yf.out = NoneV) <=> (Available = {})
        /\ Available # {} =>
              (yf.pc = "done" /\ yf.out.t = "dict" /\ yf.out.v.content \in Available)

-----------------------------------------------------------------------------
(* SpecExtract: CleanWikipediaContent and ParseVCard on bounded inputs     *)

MaxTextLen == 6     \* longest enumerated narrative text
MaxCellLen == 6     \* longest enumerated data-cell text

TextAlphabet == {"[", "]", "1", "a", "\n"}
CellAlphabet == {"[", "]", "2", "nbsp"}

\* "Foo[1] Bar[edit]\n== See also ==\nBaz"
ExampleText ==
    <<"F","o","o","[","1","]"," ","B","a","r","[","e","d","i","t","]">>
        \o Heading(EndSections[1]) \o <<"B","a","z">>
FooBar == <<"F","o","o"," ","B","a","r">>

\* Texts with two end-of-article headings, the second right after the first
\* (the two lines share the newline between them) or after a line of text.
TwoHeadings ==
    {<<"F">> \o Heading(EndSections[i]) \o mid \o Tail(Heading(EndSections[j])) \o <<"z">> :
        i \in 1..Len(EndSections), j \in 1..Len(EndSections), mid \in {<<>>, <<"x", "\n">>}}

CleanTexts ==
    SeqsUpTo(TextAlphabet, MaxTextLen) \cup {ExampleText} \cup TwoHeadings
        \cup {Lower(t) : t \in TwoHeadings}

\* "Traded\xa0as" and "NASDAQ:\xa0ABC[2]"
TradedNbspAs == <<"T","r","a","d","e","d","nbsp","a","s">>
NasdaqNbspABC == <<"N","A","S","D","A","Q",":","nbsp","A","B","C","[","2","]">>
NasdaqABC == <<"N","A","S","D","A","Q",":"," ","A","B","C">>

CellPieces == {<<"A">>, <<"[","2","]">>, <<"nbsp">>, <<"[">>, <<"2","]">>, <<" ","A"," ">>}

\* Documents: without table, with tables that are not info tables, and info
\* tables of one row whose header or data cell is absent, is one text, or is
\* several text nodes.
VCardHtmls ==
    {<<>>, <<PlainTable>>, <<[classes |-> {"infobox"}, rows |-> <<InfoRow(TradedAs, ABC)>>]>>,
     <<Infobox(<<>>)>>,
     <<PlainTable, Infobox(<<InfoRow(TradedNbspAs, NasdaqNbspABC)>>)>>}
      \cup {<<Infobox(<<InfoRow(TradedNbspAs, d)>>)>> :
                d \in SeqsUpTo(CellAlphabet, MaxCellLen)}
      \cup {<<Infobox(<<InfoRow(h, <<"A">>), InfoRow(TradedAs, ABC)>>)>> :
                h \in SeqsUpTo({"nbsp", "A", "["}, 3)}
      \cup {<<Infobox(<<[th |-> th, td |-> td]>>)>> :
                th \in {NoCell, Cell(<<>>), Cell(<<TradedAs>>)},
                td \in {NoCell, Cell(<<>>)} \cup {Cell(<<p, q>>) : p \in CellPieces, q \in CellPieces}}

NotRun == [done |-> FALSE, value |-> <<>>]

ExtractInit ==
    /\ xIn \in [f : {"CleanWikipediaContent"}, arg : CleanTexts]
               \cup [f : {"ParseVCard"}, arg : VCardHtmls]
    /\ xOut = NotRun
    /\ scan = <<>> /\ yf = <<>>
    /\ GateIdle
    /\ SearchIdle
    /\ OrchIdle

XClean ==
    /\ xIn.f = "CleanWikipediaContent" /\ ~xOut.done
    /\ xOut' = [done |-> TRUE, value |-> CleanWikipediaContent(xIn.arg)]
    /\ UNCHANGED <<xIn, scan, yf, gateVars, searchVars, orchVars>>

XParse ==
    /\ xIn.f = "ParseVCard" /\ ~xOut.done
    /\ xOut' = [done |-> TRUE, value |-> ParseVCard(xIn.arg)]
    /\ UNCHANGED <<xIn, scan, yf, gateVars, searchVars, orchVars>>

ExtractNext == XClean \/ XParse

SpecExtract == ExtractInit /\ [][ExtractNext]_vars

-----------------------------------------------------------------------------
(* Claims about the extractor, under SpecExtract                           *)

\* s holds a bracketed run "[c...c]" of one or more characters of C.
HasBracketed(s, C) ==
    \E i \in 1..Len(s) : \E j \in (i + 2)..Len(s) :
        /\ s[i] = "[" /\ s[j] = "]"
        /\ \A k \in (i + 1)..(j - 1) : s[k] \in C

\* The positions of s where a heading line of an end-of-article section
\* starts, compared without case.
HeadingStarts(s) ==
    {i \in 0..Len(s) : \E k \in 1..Len(EndSections) :
        LET h == Heading(EndSections[k]) IN
        i + Len(h) <= Len(s) /\ Lower(SubSeq(s, i + 1, i + Len(h))) = Lower(h)}

\* s cut at the earliest heading line (all of s when there is none).
CutEarliest(s) ==
    IF HeadingStarts(s) = {} THEN s
    ELSE SubSeq(s, 1, CHOOSE i \in HeadingStarts(s) : \A j \in HeadingStarts(s) : i <= j)

\* C17: for every text, CleanWikipediaContent returns the text with citation
\* markers and bracketed letter/space notes removed, cut at the earliest
\* end-of-article heading line (case-insensitive), with runs of 3 or more
\* newlines collapsed to two and trimmed; the output holds no [digits]
\* marker; "Foo[1] Bar[edit]\n== See also ==\nBaz" cleans to "Foo Bar".
C17_NarrativeCleaning ==
    (xOut.done /\ xIn.f = "CleanWikipediaContent") =>
        LET stripped == SubBracketed(SubBracketed(xIn.arg, Digits), Letters \cup Whitespace)
        IN /\ xOut.value = Strip(CollapseNewlines(CutEarliest(stripped)))
           /\ ~HasBracketed(xOut.value, Digits)
           /\ xIn.arg = ExampleText => xOut.value = FooBar

\* C18: for every document, ParseVCard returns a mapping without empty key
\* or value, without non-breaking space in a key or value, and without
\* citation marker [digits] in a value; it is the empty mapping when the
\* document has no info table; the row "Traded\xa0as" / "NASDAQ:\xa0ABC[2]"
\* yields "Traded as" -> "NASDAQ: ABC".
C18_IdentityCardInvariant ==
    (xOut.done /\ xIn.f = "ParseVCard") =>
        LET card == xOut.value
            html == xIn.arg
        IN /\ \A k \in DOMAIN card :
                 /\ k # <<>> /\ card[k] # <<>>
                 /\ \A i \in 1..Len(k) : k[i] # "nbsp"
                 /\ \A i \in 1..Len(card[k]) : card[k][i] # "nbsp"
                 /\ ~HasBracketed(card[k], Digits)
           /\ (\A t \in 1..Len(html) : html[t].classes \cap {"infobox", "vcard"} = {})
                 => card = EmptyDict
           /\ (\E t \in 1..Len(html) :
                    /\ FindInfobox(html) = t
                    /\ \E r \in 1..Len(html[t].rows) :
                          html[t].rows[r] = InfoRow(TradedNbspAs, NasdaqNbspABC))
                 => (TradedAs \in DOMAIN card /\ card[TradedAs] = NasdaqABC)

-----------------------------------------------------------------------------
(* extract_wikipedia_url (PT1_bingSeleniumScraping.py 158-249)             *)
(* scan holds one call on a results page: the anchors found at line 172 in *)
(* page order, the loop index, and the browser.  A link is its href (a     *)
(* sequence of URL tokens, empty when the anchor has none) and dest, where *)
(* the browser lands when the href is navigated to.                        *)

MaxLinks == 3       \* most result links on the page

WikiMark == "en.wikipedia.org/wiki/"
RedirectMarks == {"bing.com/ck/a", "/r.php", "go.microsoft.com"}

\* Python  mark in url  for a URL given as tokens.
Contains(url, mark) == \E k \in 1..Len(url) : url[k] = mark

\* url.split("#")[0].split("?")[0]
BeforeToken(url, tok) ==
    LET hits == {k \in 1..Len(url) : url[k] = tok}
    IN IF hits = {} THEN url
       ELSE SubSeq(url, 1, (CHOOSE k \in hits : \A j \in hits : k <= j) - 1)
CleanUrl(url) == BeforeToken(BeforeToken(url, "#"), "?")

WikiUrl(title) == <<"https://", WikiMark, title>>
OtherUrl == <<"https://", "example.com/", "p">>
BingRedirect == <<"https://", "www.", "bing.com/ck/a", "?", "u=a1">>

NoDest == [raises |-> FALSE, url |-> <<>>]
Lands(url) == [raises |-> FALSE, url |-> url]

\* The links tried at position i of the page: no href, a direct link to the
\* target site (plain or with a fragment), a link elsewhere, a link elsewhere
\* that names the target site in its query string, a link to the target site
\* that names the page in its query string only, and a redirect wrapper that
\* fails to load, lands on the target site or lands elsewhere.
LinksAt(i) ==
    LET title == IdChar[i] IN
    {[href |-> <<>>, dest |-> NoDest],
     [href |-> WikiUrl(title), dest |-> NoDest],
     [href |-> WikiUrl(title) \o <<"#", "History">>, dest |-> NoDest],
     [href |-> OtherUrl, dest |-> NoDest],
     [href |-> OtherUrl \o <<"?", "u=", WikiMark, title>>, dest |-> NoDest],
     [href |-> <<"https://", WikiMark, "?", "curid=1">>, dest |-> NoDest],
     [href |-> BingRedirect, dest |-> [raises |-> TRUE, url |-> <<>>]],
     [href |-> BingRedirect, dest |-> Lands(WikiUrl(title) \o <<"?", "x=1">>)],
     [href |-> BingRedirect, dest |-> Lands(OtherUrl)]}

RECURSIVE Pages(_)
Pages(n) ==
    IF n = 0 THEN {<<>>}
    ELSE LET S == Pages(n - 1) IN
         S \cup {Append(pg, l) : pg \in {x \in S : Len(x) = n - 1}, l \in LinksAt(n)}

ScanInit ==
    /\ \E pg \in Pages(MaxLinks) :
          scan = [links |-> pg, idx |-> 1, pc |-> "anchor", stale |-> FALSE,
                  visited |-> <<>>, followed |-> <<>>, out |-> NoneV]
    /\ xIn = <<>> /\ xOut = <<>> /\ yf = <<>>
    /\ GateIdle
    /\ SearchIdle
    /\ OrchIdle

\* Lines 176-199: the next anchor: its href is read and tested.  Reading the
\* href of an anchor the browser no longer knows raises, and the loop goes on
\* with the next anchor (lines 179-182).
SAnchor ==
    /\ scan.pc = "anchor" /\ scan.idx <= Len(scan.links)
    /\ LET href == scan.links[scan.idx].href
           read == [scan EXCEPT !.visited = Append(@, scan.idx)]
       IN scan' =
            IF scan.stale THEN [scan EXCEPT !.idx = @ + 1]
            ELSE IF href = <<>> THEN [read EXCEPT !.idx = @ + 1]
            ELSE IF Contains(href, WikiMark)
                 THEN \* lines 191-195: a direct link is returned, cleaned
                      [read EXCEPT !.out = Str(CleanUrl(href)), !.pc = "done"]
            ELSE IF \E mk \in RedirectMarks : Contains(href, mk)
                 THEN [read EXCEPT !.pc = "follow"]
            ELSE [read EXCEPT !.idx = @ + 1]
    /\ UNCHANGED <<xIn, xOut, yf, gateVars, searchVars, orchVars>>

\* Lines 202-232: the redirect is followed with driver.get(href), the address
\* the browser lands at is read, and driver.back() returns to the results.
\* The anchors found at line 172 belong to the document that was left:
\* whether the browser still knows them afterwards depends on the browser.
SFollow ==
    /\ scan.pc = "follow"
    /\ \E st \in BOOLEAN :
          LET dest == scan.links[scan.idx].dest
              went == [scan EXCEPT !.followed = Append(@, scan.idx), !.stale = st]
          IN scan' =
               IF dest.raises THEN [went EXCEPT !.idx = @ + 1, !.pc = "anchor"]
               ELSE IF Contains(dest.url, WikiMark)
                    THEN [went EXCEPT !.out = Str(CleanUrl(dest.url)), !.pc = "done"]
               ELSE [went EXCEPT !.idx = @ + 1, !.pc = "anchor"]
    /\ UNCHANGED <<xIn, xOut, yf, gateVars, searchVars, orchVars>>

\* Lines 235-249: the anchors are exhausted: return None.
SEnd ==
    /\ scan.pc = "anchor" /\ scan.idx > Len(scan.links)
    /\ scan' = [scan EXCEPT !.out = NoneV, !.pc = "done"]
    /\ UNCHANGED <<xIn, xOut, yf, gateVars, searchVars, orchVars>>

ScanNext == SAnchor \/ SFollow \/ SEnd

SpecScan == ScanInit /\ [][ScanNext]_vars

-----------------------------------------------------------------------------
(* Claims about the link scan, under SpecScan                              *)

\* The link matches the target-site pattern directly, or is a redirect
\* wrapper whose destination matches it.
MatchesDirectly(l) == Contains(l.href, WikiMark)
MatchesViaRedirect(l) ==
    /\ ~MatchesDirectly(l)
    /\ \E mk \in RedirectMarks : Contains(l.href, mk)
    /\ ~l.dest.raises /\ Contains(l.dest.url, WikiMark)
Matching == {k \in 1..Len(scan.links) :
                MatchesDirectly(scan.links[k]) \/ MatchesViaRedirect(scan.links[k])}
UrlOf(l) == CleanUrl(IF MatchesDirectly(l) THEN l.href ELSE l.dest.url)

\* C20: extract_wikipedia_url returns the URL of the earliest link, in page
\* order, that matches directly or through its followed redirect; no link
\* after it is read or followed; it returns None exactly when no link of the
\* page matches, also after an earlier redirect was followed without match.
C20_EarliestMatchingLink ==
    scan.pc = "done" =>
        IF Matching = {} THEN scan.out = NoneV
        ELSE LET first == CHOOSE k \in Matching : \A j \in Matching : k <= j IN
             /\ scan.out = Str(UrlOf(scan.links[first]))
             /\ \A n \in 1..Len(scan.visited) : scan.visited[n] <= first
             /\ \A n \in 1..Len(scan.followed) : scan.followed[n] <= first

\* C24: every URL extract_wikipedia_url returns (fragment and query string
\* stripped) holds 'en.wikipedia.org/wiki/' followed by a non-empty page
\* identifier, also when the href or the redirect destination holds the
\* pattern inside its query string or fragment only.
C24_ReturnedUrlMatchesPattern ==
    (scan.pc = "done" /\ scan.out # NoneV) =>
        \E k \in 1..(Len(scan.out.v) - 1) : scan.out.v[k] = WikiMark

-----------------------------------------------------------------------------
(* Start of the worker process (PT1_bingSeleniumScraping.py 354-356)       *)
(* With the start method "fork" the worker inherits the modules the caller *)
(* has loaded and enters its target at once (CStart).  With "spawn", the   *)
(* default on Windows and macOS, the worker is a fresh interpreter that    *)
(* first imports the module of its target: PT1_bingSeleniumScraping, whose *)
(* line 30 imports PT1_wikiScraping, whose module-level code (lines 27-36  *)
(* and 144-241) then runs in the worker process.  SpecSpawn models one     *)
(* call under either start method, against the collection as the caller's  *)
(* own import left it.                                                     *)

\* Line 356 under "spawn": the worker starts by importing its modules.
CStartSpawn ==
    /\ cpc = "start"
    /\ proc' = "running" /\ wpc' = "import"
    /\ cpc' = "join"
    /\ opc' = "import"
    /\ UNCHANGED <<sIn, got, ret, branch, sig, driver, attempt, wurl, buffer, pipe, puts,
                   aliveAtDeadline, aliveAtReturn, wlog, putsAtDeadline,
                   store, run, DF, row, Mismatched, last, prevEnd, startStore, hist,
                   gateVars, libVars>>

\* Line 30 executed in the worker: one step of the module-level code of
\* PT1_wikiScraping.
WImportStep ==
    /\ WRunning /\ wpc = "import"
    /\ \/ OImport \/ OFind \/ OIter \/ ODoneStats \/ OMismatchFind \/ OFix \/ OFixEnd

\* The import is complete: the worker enters _search_with_timeout_worker.
WImported ==
    /\ WRunning /\ wpc = "import" /\ opc = "done"
    /\ wpc' = "create_driver"
    /\ UNCHANGED <<sIn, cpc, got, ret, branch, proc, sig, driver, attempt, wurl, buffer,
                   pipe, puts, aliveAtDeadline, aliveAtReturn, wlog, putsAtDeadline,
                   gateVars, orchVars, libVars>>

\* The import raised: the worker ends with a traceback, its target not run.
WImportFailed ==
    /\ WRunning /\ wpc = "import" /\ opc = "aborted"
    /\ proc' = "crashed"
    /\ UNCHANGED <<sIn, cpc, got, ret, branch, wpc, sig, driver, attempt, wurl, buffer,
                   pipe, puts, aliveAtDeadline, aliveAtReturn, wlog, putsAtDeadline,
                   gateVars, orchVars, libVars>>

SpawnInit ==
    /\ \E r \in {RETRIES, MaxRetries} :
          sIn = [company |-> <<"C","o">>, ticker |-> TickerA, retries |-> r]
    /\ cpc = "start" /\ got = NoMsg /\ ret = NoneV /\ branch = "none"
    /\ wpc = "idle" /\ proc = "unstarted" /\ sig = {} /\ driver = "none"
    /\ attempt = 0 /\ wurl = NoURL /\ buffer = <<>> /\ pipe = <<>> /\ puts = <<>>
    /\ aliveAtDeadline = FALSE /\ aliveAtReturn = FALSE
    /\ wlog = <<>> /\ putsAtDeadline = 0
    /\ store \in InitStores(MaxDocs)
    /\ opc = "idle" /\ run = 1 /\ DF = <<>> /\ row = 0 /\ Mismatched = <<>>
    /\ last = NoIter /\ prevEnd = "none" /\ startStore = store /\ hist = NoHist(store)
    /\ GateIdle
    /\ LibIdle

SpawnNext ==
    \/ CStartSpawn \/ WImportStep \/ WImported \/ WImportFailed
    \/ WorkerNext \/ CallerNext

SpecSpawn == SpawnInit /\ [][SpawnNext]_vars

-----------------------------------------------------------------------------
(* Claims about the isolation of caller and worker, under SpecSpawn        *)

\* C22: the document store is read and written by the orchestrator process
\* only: the worker process, the loading of its modules included, selects no
\* batch from the store and writes nothing to it.
C22_WorkerLeavesStoreAlone ==
    proc # "unstarted" =>
        /\ opc \in {"idle", "import", "find", "aborted"} /\ DF = <<>>
        /\ store = startStore

=============================================================================
